---- MODULE Spec2Model ----
(***************************************************************************)
(* A model of arrow-odbc's reader: the choice of a text column strategy    *)
(* (reader/text.rs), the choice of a column strategy and the batch         *)
(* conversion (lib.rs), and the reader's iteration and its conversion into *)
(* a concurrent reader (reader/odbc_reader.rs).                            *)
(*                                                                         *)
(* Two specifications share the variables:                                 *)
(*   Spec      the reader: next(), into_concurrent(), the concurrent       *)
(*             reader's worker and consumer, drop;                         *)
(*   SpecText  strategy selection as a function of its inputs.             *)
(***************************************************************************)
EXTENDS Integers, Sequences, FiniteSets, TLC

VARIABLES
    \* ---- SpecText: one call of a strategy chooser -------------------
    t_in,           \* the arguments of the last call
    t_out,          \* what the call returned, and the metadata queries it made
    \* ---- Spec: the reader -------------------------------------------
    reader,         \* the OdbcReader: schema, strategies, bound buffer, options
    cursor,         \* the source cursor: rows of the result set, rows fetched
    mode,           \* which handle the caller holds
    out,            \* what the calls of next() returned so far, in order
    conc,           \* the concurrent reader made by into_concurrent()
    worker,         \* the concurrent reader's background worker
    channel,        \* the hand-off channel from the worker to the consumer
    fetches         \* the fetch calls started on the cursor, in order

text_vars == <<t_in, t_out>>
reader_vars == <<reader, cursor, mode, out, conc, worker, channel, fetches>>
vars == <<t_in, t_out, reader, cursor, mode, out, conc, worker, channel, fetches>>

\* Option::None, for the optional sizes (a length, a cap, a display size).
None == -1

\* ---------------------------------------------------------------- bounds
\* Largest length a native type or the display size reports, largest cap.
MaxLen == 3

Min(a, b) == IF a <= b THEN a ELSE b

\* ------------------------------------------------------------------------
\* Strategy selection: reader/text.rs and lib.rs
\* ------------------------------------------------------------------------

\* The native (ODBC) type of a column, as far as selection reads it: the
\* results of utf8_len() and utf16_len(), each None or a positive length, and
\* of column_size() (read for a Binary field only).
SqlTypes ==
    [name : {"Varchar"}, utf8_len : 1..MaxLen, utf16_len : 1..MaxLen, column_size : {0}]
        \cup [name : {"Other"}, utf8_len : {None}, utf16_len : {None}, column_size : {0}]
        \cup [name : {"Varbinary"}, utf8_len : {None}, utf16_len : {None},
              column_size : {0, MaxLen}]

\* What lazy_display_size() of reader/text.rs returns: an error, or an optional
\* non-zero size.
TextDisplayResults ==
    {[ok |-> FALSE, size |-> None]} \cup [ok : {TRUE}, size : {None} \cup 1..MaxLen]

\* What lazy_display_size() of lib.rs returns: an error, or a signed size.
LibDisplayResults ==
    {[ok |-> FALSE, size |-> 0]} \cup [ok : {TRUE}, size : (0 - 2)..MaxLen]

\* What lazy_sql_type() returns: an error, or the native type.
SqlTypeResults ==
    {[ok |-> FALSE, type |-> t] : t \in {[name |-> "Other", utf8_len |-> None,
                                          utf16_len |-> None, column_size |-> 0]}}
        \cup [ok : {TRUE}, type : SqlTypes]

\* max_text_size: Option<usize>.
Caps == {None} \cup 0..MaxLen

\* What a chooser returns: a strategy (ok) with its buffer's max_str_len, or a
\* failure with the native type and the display size it carries; and with it the
\* number of native-type and of display-size queries the call made.
StrategyOk(kind, len, sql_queries, display_queries) ==
    [ok |-> TRUE, kind |-> kind, max_str_len |-> len,
     sql_queries |-> sql_queries, display_queries |-> display_queries]

Failure(kind, sql_type, size, sql_queries, display_queries) ==
    [ok |-> FALSE, kind |-> kind, sql_type |-> sql_type, size |-> size,
     arrow_type |-> "none",
     sql_queries |-> sql_queries, display_queries |-> display_queries]

\* apply_buffer_limit with the cap left out of the clamp.
apply_buffer_limit_ignoring_cap(len, max_text_size) ==
    CASE len = None /\ max_text_size = None -> [ok |-> FALSE, len |-> None]
      [] len = None /\ max_text_size # None -> [ok |-> TRUE, len |-> max_text_size]
      [] OTHER -> [ok |-> TRUE, len |-> len]

\* apply_buffer_limit: the length clamped by the cap, [ok, len]; not ok is
\* ZeroSizedColumn.
apply_buffer_limit(len, max_text_size) ==
    CASE len = None /\ max_text_size = None -> [ok |-> FALSE, len |-> None]
      [] len = None /\ max_text_size # None -> [ok |-> TRUE, len |-> max_text_size]
      [] len # None /\ max_text_size = None -> [ok |-> TRUE, len |-> len]
      [] OTHER -> [ok |-> TRUE, len |-> Min(len, max_text_size)]

wide_text_strategy(u16_len) == [kind |-> "WideText", max_str_len |-> u16_len]

\* narrow_text_strategy paying no attention to the flag.
narrow_text_strategy_ignoring_flag(octet_len, assume_indicators_are_memory_garbage) ==
    [kind |-> "NarrowText", max_str_len |-> octet_len]

narrow_text_strategy(octet_len, assume_indicators_are_memory_garbage) ==
    IF assume_indicators_are_memory_garbage
    THEN [kind |-> "NarrowUseTerminatingZero", max_str_len |-> octet_len]
    ELSE [kind |-> "NarrowText", max_str_len |-> octet_len]

\* The length with the display size queried eagerly, before the native type is
\* looked at.
lazy_len_eager(native_len, display) ==
    IF ~display.ok
    THEN [ok |-> FALSE, len |-> None, queried |-> 1]
    ELSE [ok |-> TRUE, len |-> IF native_len # None THEN native_len ELSE display.size,
          queried |-> 1]

\* sql_type.utf8_len().map(Ok).or_else(|| lazy_display_size().transpose()):
\* the native length when there is one, and only else the display size query.
\* display is the query's outcome: [ok, size], size None or positive.
lazy_len(native_len, display) ==
    IF native_len # None
    THEN [ok |-> TRUE, len |-> native_len, queried |-> 0]
    ELSE [ok |-> display.ok, len |-> display.size, queried |-> 1]

\* One branch of choose_text_strategy: the length, the limit, the strategy.
\* wide is the branch taken (cfg!(target_os = "windows")).
text_strategy_branch(wide, sql_type, native_len, display, max_text_size, garbage) ==
    LET len == lazy_len(native_len, display)
        limited == apply_buffer_limit(len.len, max_text_size)
    IN  IF ~len.ok
        THEN Failure("UnknownStringLength", sql_type, 0, 0, len.queried)
        ELSE IF ~limited.ok
        THEN Failure("ZeroSizedColumn", sql_type, 0, 0, len.queried)
        ELSE LET s == IF wide THEN wide_text_strategy(limited.len)
                      ELSE narrow_text_strategy(limited.len, garbage)
             IN  StrategyOk(s.kind, s.max_str_len, 0, len.queried)

\* choose_text_strategy. windows is cfg!(target_os = "windows"), fixed by the
\* build; display is what lazy_display_size() returns if it is called.
choose_text_strategy(windows, sql_type, display, max_text_size, garbage) ==
    IF windows
    THEN text_strategy_branch(TRUE, sql_type, sql_type.utf16_len, display,
                              max_text_size, garbage)
    ELSE text_strategy_branch(FALSE, sql_type, sql_type.utf8_len, display,
                              max_text_size, garbage)

\* The Arrow types choose_column_strategy (lib.rs) matches on.
SupportedArrowTypes ==
    {"Boolean", "Int8", "Int16", "Int32", "Int64", "UInt8", "Float32", "Float64",
     "Date32", "Utf8", "Decimal", "Binary", "Timestamp(Second)",
     "Timestamp(Millisecond)", "Timestamp(Microsecond)", "Timestamp(Nanosecond)",
     "FixedSizeBinary"}

UnsupportedArrowTypes ==
    {"Null", "Date64", "Time32", "Time64", "Duration", "Interval", "LargeBinary",
     "LargeUtf8", "List", "FixedSizeList", "LargeList", "Struct", "Union",
     "Dictionary", "UInt16", "UInt32", "UInt64", "Float16"}

ArrowTypes == SupportedArrowTypes \cup UnsupportedArrowTypes

NoType == [name |-> "Other", utf8_len |-> None, utf16_len |-> None, column_size |-> 0]

\* The last arm with the type of the field left out of the error.
unsupported_arrow_type_without_type(field) ==
    Failure("UnsupportedArrowType", NoType, 0, 0, 0)

\* The last arm of choose_column_strategy (lib.rs):
\* Err(Error::UnsupportedArrowType(arrow_type.clone())).
unsupported_arrow_type(field) ==
    [Failure("UnsupportedArrowType", NoType, 0, 0, 0) EXCEPT !.arrow_type = field.type]

\* The Utf8 arm with the display size checked against 0 instead of 1.
utf8_column_strategy_accepting_zero(sql_res, display) ==
    IF ~sql_res.ok
    THEN Failure("FailedToDescribeColumn", sql_res.type, 0, 1, 0)
    ELSE IF sql_res.type.utf16_len # None
    THEN StrategyOk("WideText", sql_res.type.utf16_len, 1, 0)
    ELSE IF ~display.ok
    THEN Failure("UnknownStringLength", sql_res.type, 0, 1, 1)
    ELSE IF display.size < 0
    THEN Failure("InvalidDisplaySize", sql_res.type, display.size, 1, 1)
    ELSE StrategyOk("WideText", display.size, 1, 1)

\* The Utf8 arm of choose_column_strategy (lib.rs): the native type first, the
\* display size as the last resort; display is [ok, size] with a signed size.
utf8_column_strategy(sql_res, display) ==
    IF ~sql_res.ok
    THEN Failure("FailedToDescribeColumn", sql_res.type, 0, 1, 0)
    ELSE IF sql_res.type.utf16_len # None
    THEN StrategyOk("WideText", sql_res.type.utf16_len, 1, 0)
    ELSE IF ~display.ok
    THEN Failure("UnknownStringLength", sql_res.type, 0, 1, 1)
    ELSE IF display.size < 1
    THEN Failure("InvalidDisplaySize", sql_res.type, display.size, 1, 1)
    ELSE StrategyOk("WideText", display.size, 1, 1)

\* The Binary arm of choose_column_strategy (lib.rs).
binary_column_strategy(sql_res) ==
    IF ~sql_res.ok
    THEN Failure("FailedToDescribeColumn", sql_res.type, 0, 1, 0)
    ELSE StrategyOk("Binary", sql_res.type.column_size, 1, 0)

\* choose_column_strategy (lib.rs). field is [type, nullable]; sql_res and
\* display are what the two lazy queries return if they are called.
choose_column_strategy(field, sql_res, display) ==
    CASE field.type = "Boolean" ->
            StrategyOk(IF field.nullable THEN "NullableBoolean" ELSE "NonNullableBoolean",
                       None, 0, 0)
      [] field.type \in {"Int8", "Int16", "Int32", "Int64", "UInt8", "Float32", "Float64"} ->
            StrategyOk("NoConversion", None, 0, 0)
      [] field.type \in {"Date32", "Timestamp(Second)", "Timestamp(Millisecond)",
                         "Timestamp(Microsecond)", "Timestamp(Nanosecond)"} ->
            StrategyOk("WithConversion", None, 0, 0)
      [] field.type = "Utf8" -> utf8_column_strategy(sql_res, display)
      [] field.type = "Decimal" -> StrategyOk("Decimal", None, 0, 0)
      [] field.type = "Binary" -> binary_column_strategy(sql_res)
      [] field.type = "FixedSizeBinary" -> StrategyOk("FixedSizedBinary", None, 0, 0)
      [] field.type \in UnsupportedArrowTypes -> unsupported_arrow_type(field)

\* ------------------------------------------------------------------------
\* SpecText: one call of a chooser on inputs drawn from the bounded sets
\* ------------------------------------------------------------------------

NoCall == [fn |-> "none"]

CallChooseTextStrategy ==
    /\ t_in.fn = "none"
    /\ \E windows \in BOOLEAN, sql_type \in SqlTypes, display \in TextDisplayResults,
          max_text_size \in Caps, garbage \in BOOLEAN :
          /\ t_in' = [fn |-> "choose_text_strategy", windows |-> windows,
                      sql_type |-> sql_type, display |-> display,
                      max_text_size |-> max_text_size,
                      assume_indicators_are_memory_garbage |-> garbage]
          /\ t_out' = choose_text_strategy(windows, sql_type, display,
                                           max_text_size, garbage)
    /\ UNCHANGED reader_vars

CallChooseColumnStrategy ==
    /\ t_in.fn = "none"
    /\ \E type \in ArrowTypes, nullable \in BOOLEAN, sql_res \in SqlTypeResults,
          display \in LibDisplayResults :
          /\ t_in' = [fn |-> "choose_column_strategy",
                      field |-> [type |-> type, nullable |-> nullable],
                      sql_res |-> sql_res, display |-> display]
          /\ t_out' = choose_column_strategy([type |-> type, nullable |-> nullable],
                                             sql_res, display)
    /\ UNCHANGED reader_vars

\* ------------------------------------------------------------------------
\* The reader: construction, fetch, conversion, next()
\* ------------------------------------------------------------------------

\* Columns of a raw batch and of a schema: at most MaxCols.
MaxCols == 2
\* next() is called at most MaxOut times on one reader.
MaxOut == 4
\* At most MaxFailures fetch calls fail, at most MaxFaults batches hold a value
\* a column cannot convert.
MaxFailures == 2
MaxFaults == 1

\* Batch sizes 1..MaxBatch and result sets of 0..MaxRows rows, beside those the
\* size of the concurrent reader's batches.
MaxBatch == 2
MaxRows == 4

\* The batch size into_concurrent() gives the concurrent reader.
ConcurrentBatchSize == 100

BatchSizes == 1..MaxBatch \cup {ConcurrentBatchSize}
RowCounts == 0..MaxRows \cup {2 * ConcurrentBatchSize + 1}

\* The native column kinds of the result sets the reader is run on, and the
\* Arrow type schema inference gives each (lib.rs, the match in new()).
ColumnKinds == {"Integer", "Varchar", "Timestamp"}

arrow_type_of(kind) ==
    CASE kind = "Integer" -> "Int32"
      [] kind = "Timestamp" -> "Timestamp(Nanosecond)"
      [] OTHER -> "Utf8"

\* The native type col_data_type() reports for a column of the reader's result
\* sets: a text length for every kind (a number's or a timestamp's display size).
sql_type_of(kind) ==
    [name |-> "Varchar", utf8_len |-> MaxLen - 1, utf16_len |-> 1, column_size |-> 0]

SeqsUpTo(S, n) == UNION {[1..k -> S] : k \in 1..n}

\* BufferAllocationOptions, as far as the model reads them.
Options(max_text_size, garbage) ==
    [max_text_size |-> max_text_size, assume_indicators_are_memory_garbage |-> garbage]

DefaultOptions == Options(None, FALSE)

\* ColumnStrategy::buffer_desc / buffer_description: the buffer a strategy binds.
buffer_desc(strategy) ==
    CASE strategy.kind = "WideText" -> [kind |-> "WText", max_str_len |-> strategy.max_str_len]
      [] strategy.kind \in {"NarrowText", "NarrowUseTerminatingZero"} ->
            [kind |-> "Text", max_str_len |-> strategy.max_str_len]
      [] OTHER -> [kind |-> "Fixed", max_str_len |-> 0]

\* ToRecordBatch::new for one field: a text field goes to choose_text_strategy,
\* every other field to the arms of choose_column_strategy.
field_strategy(windows, type, kind, options) ==
    IF type = "Utf8"
    THEN choose_text_strategy(windows, sql_type_of(kind), [ok |-> TRUE, size |-> None],
                              options.max_text_size,
                              options.assume_indicators_are_memory_garbage)
    ELSE choose_column_strategy([type |-> type, nullable |-> TRUE],
                                [ok |-> TRUE, type |-> sql_type_of(kind)],
                                [ok |-> TRUE, size |-> 1])

\* OdbcReader::with (with_arrow_schema in lib.rs): one strategy per field of the
\* schema, one bound column buffer per strategy, max_batch_size rows each.
\* [ok, reader]; not ok when a strategy cannot be chosen.
OdbcReader_with(windows, columns, max_batch_size, schema, options) ==
    LET chosen == [i \in 1..Len(schema) |->
                     field_strategy(windows, schema[i], columns[i], options)]
        strategies == [i \in 1..Len(schema) |->
                         [kind |-> chosen[i].kind,
                          max_str_len |-> IF chosen[i].ok THEN chosen[i].max_str_len
                                          ELSE None]]
    IN  [ok |-> \A i \in 1..Len(schema) : chosen[i].ok,
         reader |-> [schema |-> schema,
                     strategies |-> strategies,
                     bound |-> [capacity |-> max_batch_size,
                                descs |-> [i \in 1..Len(strategies) |->
                                             buffer_desc(strategies[i])]],
                     options |-> options,
                     windows |-> windows]]

\* arrow_schema_from: the schema inferred from the cursor's columns.
arrow_schema_from(columns) == [i \in 1..Len(columns) |-> arrow_type_of(columns[i])]

\* ---- the source cursor ----

\* The faults a batch of this schema can hold: "text" is a text cell that is
\* not valid in its encoding or not terminated, "value" a value a converting
\* column cannot map.
Faults(schema) ==
    {"none"} \cup (IF \E i \in 1..Len(schema) : schema[i] = "Utf8" THEN {"text"} ELSE {})
             \cup (IF \E i \in 1..Len(schema) : schema[i] = "Timestamp(Nanosecond)"
                   THEN {"value"} ELSE {})

\* Cursor::fetch on a buffer of `capacity` rows: the outcomes the source can
\* give, each with the cursor after it. A failed fetch consumes no rows.
FetchOutcomes(c, capacity, schema) ==
    (IF c.failures < MaxFailures
     THEN {[result |-> "err", start |-> c.pos, rows |-> 0, fault |-> "none",
            cursor |-> [c EXCEPT !.failures = @ + 1]]}
     ELSE {})
    \cup
    (IF c.pos < c.total
     THEN LET n == Min(capacity, c.total - c.pos) IN
          {[result |-> "batch", start |-> c.pos, rows |-> n, fault |-> f,
            cursor |-> [c EXCEPT !.pos = @ + n,
                                 !.faults = IF f = "none" THEN @ ELSE @ + 1]] :
             f \in {g \in Faults(schema) : g = "none" \/ c.faults < MaxFaults}}
     ELSE {[result |-> "none", start |-> c.pos, rows |-> 0, fault |-> "none",
            cursor |-> c]})

\* ---- conversion ----

\* TextColumnView::raw_value_buffer: the bound buffer's bytes of the valid rows,
\* max_str_len + 1 of them for each row.
raw_value_buffer_len(desc, num_rows) == (desc.max_str_len + 1) * num_rows

\* chunks_exact with chunks of max_str_len bytes, the terminating zero forgotten.
chunks_exact_without_terminator(buffer_len, max_str_len) == buffer_len \div max_str_len

\* chunks_exact(self.max_str_len + 1): the number of chunks of the raw buffer.
chunks_exact(buffer_len, max_str_len) == buffer_len \div (max_str_len + 1)

\* fill_arrow_array of the strategies of fixed-size values: one element for
\* each valid row; a converting strategy fails on a value it cannot map.
fixed_fill_arrow_array(strategy, view) ==
    IF strategy.kind = "WithConversion" /\ view.fault = "value"
    THEN [status |-> "error", len |-> 0]
    ELSE [status |-> "ok", len |-> view.num_rows]

\* fill_arrow_array of the three text strategies (reader/text.rs): [status, len],
\* the length of the array built. view is the column of the raw batch:
\* [desc, num_rows, fault]. The wide and the narrow strategy append one value
\* for each element of view.iter(), the terminating-zero strategy one for each
\* chunk of the raw value buffer; each panics on a view of another shape
\* (unwrap) and on text that is not valid (expect, unwrap).
fill_arrow_array(strategy, view) ==
    CASE strategy.kind = "WideText" ->
            IF view.desc.kind # "WText" \/ view.fault = "text"
            THEN [status |-> "panic", len |-> 0]
            ELSE [status |-> "ok", len |-> view.num_rows]
      [] strategy.kind = "NarrowText" ->
            IF view.desc.kind # "Text" \/ view.fault = "text"
            THEN [status |-> "panic", len |-> 0]
            ELSE [status |-> "ok", len |-> view.num_rows]
      [] strategy.kind = "NarrowUseTerminatingZero" ->
            IF view.desc.kind # "Text" \/ view.fault = "text"
            THEN [status |-> "panic", len |-> 0]
            ELSE [status |-> "ok",
                  len |-> chunks_exact(raw_value_buffer_len(view.desc, view.num_rows),
                                       strategy.max_str_len)]
      [] OTHER -> fixed_fill_arrow_array(strategy, view)

\* odbc_batch_to_arrow_columns: one array per strategy, from the column of the
\* same index.
odbc_batch_to_arrow_columns(column_strategies, bound, batch) ==
    [index \in 1..Len(column_strategies) |->
       fill_arrow_array(column_strategies[index],
                        [desc |-> bound.descs[index], num_rows |-> batch.rows,
                         fault |-> batch.fault])]

\* What next() returns.
Item(kind, start, rows, cols) == [kind |-> kind, start |-> start, rows |-> rows, cols |-> cols]

\* RecordBatch::try_new(schema, columns): the batch, or a failure when the
\* columns are not one per field or not of one length.
RecordBatch_try_new(schema, columns, batch) ==
    IF Len(columns) # Len(schema)
       \/ \E i, j \in 1..Len(columns) : columns[i].len # columns[j].len
    THEN Item("panic", batch.start, batch.rows, <<>>)
    ELSE Item("batch", batch.start, batch.rows, [i \in 1..Len(columns) |-> columns[i].len])

\* buffer_to_record_batch: the arrays of all columns, then the record batch; a
\* panic of a fill unwinds, an error of a fill is the result.
buffer_to_record_batch(r, batch) ==
    LET columns == odbc_batch_to_arrow_columns(r.strategies, r.bound, batch) IN
    IF \E i \in 1..Len(columns) : columns[i].status = "panic"
    THEN Item("panic", batch.start, batch.rows, <<>>)
    ELSE IF \E i \in 1..Len(columns) : columns[i].status = "error"
    THEN Item("conversion error", batch.start, batch.rows, <<>>)
    ELSE RecordBatch_try_new(r.schema, columns, batch)

\* The match of next() (reader/odbc_reader.rs) on the result of a fetch.
next_item(r, fetched) ==
    CASE fetched.result = "batch" -> buffer_to_record_batch(r, fetched)
      [] fetched.result = "none" -> Item("none", fetched.start, 0, <<>>)
      [] OTHER -> Item("fetch error", fetched.start, 0, <<>>)

\* ---- the state ----

NoReader ==
    [schema |-> <<>>, strategies |-> <<>>, bound |-> [capacity |-> 0, descs |-> <<>>],
     options |-> DefaultOptions, windows |-> FALSE]

\* The worker: its place in its loop, the cancellation signal, the item it is
\* handing off, the items it produced (in fetch order), the fetch results it
\* discarded, and the number of items the caller had pulled from the reader
\* before it became concurrent.
IdleWorker == [pc |-> "none", cancelled |-> FALSE, pending |-> Item("none", 0, 0, <<>>),
               produced |-> <<>>, discarded |-> 0, base |-> 0]

\* The reader as `with` returns it on a fresh cursor, for every choice of the
\* result set, the schema, the batch size and the options within the sets.
ReaderInit(column_seqs, batch_sizes, row_counts, caps) ==
    /\ t_in = NoCall
    /\ t_out = NoCall
    /\ \E windows \in BOOLEAN, columns \in column_seqs, infer \in BOOLEAN,
          max_batch_size \in batch_sizes, total \in row_counts,
          max_text_size \in caps, garbage \in BOOLEAN :
          LET schema == IF infer THEN arrow_schema_from(columns)
                        ELSE [i \in 1..Len(columns) |-> "Utf8"]
              made == OdbcReader_with(windows, columns, max_batch_size, schema,
                                      Options(max_text_size, garbage))
          IN  /\ made.ok
              /\ reader = made.reader
              /\ cursor = [columns |-> columns, total |-> total, pos |-> 0,
                           failures |-> 0, faults |-> 0]
    /\ mode = "reader"
    /\ out = <<>>
    /\ conc = NoReader
    /\ worker = IdleWorker
    /\ channel = <<>>
    /\ fetches = <<>>

\* OdbcReader::next: one fetch into the bound buffer, and its conversion.
next ==
    /\ mode = "reader"
    /\ Len(out) < MaxOut
    /\ \E fetched \in FetchOutcomes(cursor, reader.bound.capacity, reader.schema) :
          LET item == next_item(reader, fetched) IN
          /\ cursor' = fetched.cursor
          /\ fetches' = Append(fetches, [by |-> "reader", after_drop |-> FALSE])
          /\ IF item.kind = "panic"
             THEN mode' = "panicked" /\ out' = out
             ELSE mode' = mode /\ out' = Append(out, item)
    /\ UNCHANGED <<t_in, t_out, reader, conc, worker, channel>>

\* ------------------------------------------------------------------------
\* into_concurrent() and the concurrent reader
\* ------------------------------------------------------------------------

\* The hand-off channel holds at most ChannelCapacity items.
ChannelCapacity == 1

\* ConcurrentOdbcReader::new(cursor, max_batch_size): a reader on the cursor
\* with the inferred schema and the default buffer allocation options.
ConcurrentOdbcReader_new(windows, columns, max_batch_size) ==
    OdbcReader_with(windows, columns, max_batch_size, arrow_schema_from(columns),
                    DefaultOptions)

\* The batch size into_concurrent() hands to ConcurrentOdbcReader::new.
into_concurrent_batch_size(r) == ConcurrentBatchSize

\* OdbcReader::into_concurrent: the cursor is unbound (into_cursor) and a
\* concurrent reader is built on it; its worker starts idle. A failure to
\* unbind panics (expect), a failure to build is returned and the cursor is gone.
into_concurrent ==
    /\ mode = "reader"
    /\ \E unbound \in BOOLEAN :
          IF ~unbound
          THEN /\ mode' = "panicked"
               /\ UNCHANGED <<conc, worker>>
          ELSE LET made == ConcurrentOdbcReader_new(reader.windows, cursor.columns,
                                                    into_concurrent_batch_size(reader))
               IN  IF made.ok
                   THEN /\ mode' = "concurrent"
                        /\ conc' = made.reader
                        /\ worker' = [IdleWorker EXCEPT !.pc = "idle", !.base = Len(out)]
                   ELSE /\ mode' = "failed"
                        /\ UNCHANGED <<conc, worker>>
    /\ UNCHANGED <<t_in, t_out, reader, cursor, out, channel, fetches>>

\* The worker beginning a fetch without a look at the cancellation signal.
WorkerFetch_unchecked ==
    /\ worker.pc = "idle"
    /\ worker' = [worker EXCEPT !.pc = "fetching"]
    /\ fetches' = Append(fetches, [by |-> "worker", after_drop |-> mode = "dropped"])
    /\ UNCHANGED <<t_in, t_out, reader, cursor, mode, out, conc, channel>>

\* The worker begins a fetch, unless the consumer dropped the reader.
WorkerFetch ==
    /\ worker.pc = "idle"
    /\ IF worker.cancelled
       THEN /\ worker' = [worker EXCEPT !.pc = "stopped"]
            /\ UNCHANGED fetches
       ELSE /\ worker' = [worker EXCEPT !.pc = "fetching"]
            /\ fetches' = Append(fetches, [by |-> "worker", after_drop |-> mode = "dropped"])
    /\ UNCHANGED <<t_in, t_out, reader, cursor, mode, out, conc, channel>>

\* The fetch in flight completes: its batch is converted and is the item to
\* hand off; after a drop the result is discarded and the worker stops.
WorkerFetched ==
    /\ worker.pc = "fetching"
    /\ \E fetched \in FetchOutcomes(cursor, conc.bound.capacity, conc.schema) :
          LET item == next_item(conc, fetched) IN
          /\ cursor' = fetched.cursor
          /\ worker' = IF worker.cancelled
                       THEN [worker EXCEPT !.pc = "stopped", !.discarded = @ + 1]
                       ELSE IF item.kind = "panic" THEN [worker EXCEPT !.pc = "panicked"]
                       ELSE [worker EXCEPT !.pc = "handoff", !.pending = item,
                                           !.produced = Append(@, item)]
    /\ UNCHANGED <<t_in, t_out, reader, mode, out, conc, channel, fetches>>

\* The hand-off with the worker going on after an error.
WorkerSend_going_on ==
    /\ worker.pc = "handoff"
    /\ IF worker.cancelled
       THEN /\ worker' = [worker EXCEPT !.pc = "stopped"]
            /\ UNCHANGED channel
       ELSE /\ Len(channel) < ChannelCapacity
            /\ channel' = Append(channel, worker.pending)
            /\ worker' = [worker EXCEPT !.pc = IF worker.pending.kind = "none"
                                                THEN "stopped" ELSE "waiting"]
    /\ UNCHANGED <<t_in, t_out, reader, cursor, mode, out, conc, fetches>>

\* The hand-off: the item enters the channel when it has room. An error or the
\* end of the result set is the worker's last item.
WorkerSend ==
    /\ worker.pc = "handoff"
    /\ IF worker.cancelled
       THEN /\ worker' = [worker EXCEPT !.pc = "stopped"]
            /\ UNCHANGED channel
       ELSE /\ Len(channel) < ChannelCapacity
            /\ channel' = Append(channel, worker.pending)
            /\ worker' = [worker EXCEPT !.pc = IF worker.pending.kind = "batch"
                                                THEN "waiting" ELSE "stopped"]
    /\ UNCHANGED <<t_in, t_out, reader, cursor, mode, out, conc, fetches>>

\* The worker waits until the consumer has taken the item it handed off.
WorkerResume ==
    /\ worker.pc = "waiting"
    /\ worker.cancelled \/ channel = <<>>
    /\ worker' = [worker EXCEPT !.pc = IF worker.cancelled THEN "stopped" ELSE "idle"]
    /\ UNCHANGED <<t_in, t_out, reader, cursor, mode, out, conc, channel, fetches>>

\* The items pulled from the concurrent reader.
ConcurrentItems ==
    IF worker.pc = "none" THEN <<>> ELSE SubSeq(out, worker.base + 1, Len(out))

\* Whether the stream has ended for the consumer: an error or the end was pulled.
Terminated(items) ==
    \E i \in 1..Len(items) : items[i].kind \in {"fetch error", "conversion error", "none"}

\* The consumer's next() on the concurrent reader: the head of the channel; it
\* blocks while the channel is empty and the worker runs. After an error or the
\* end it returns no item.
ConcurrentNext ==
    /\ mode = "concurrent"
    /\ Len(out) < MaxOut
    /\ IF Terminated(ConcurrentItems)
       THEN /\ out' = Append(out, Item("none", cursor.pos, 0, <<>>))
            /\ UNCHANGED <<channel, mode>>
       ELSE IF channel # <<>>
       THEN /\ out' = Append(out, Head(channel))
            /\ channel' = Tail(channel)
            /\ UNCHANGED mode
       ELSE /\ worker.pc = "panicked"
            /\ mode' = "panicked"
            /\ UNCHANGED <<out, channel>>
    /\ UNCHANGED <<t_in, t_out, reader, cursor, conc, worker, fetches>>

\* The consumer drops the concurrent reader: the worker is told to stop.
Drop ==
    /\ mode = "concurrent"
    /\ mode' = "dropped"
    /\ worker' = [worker EXCEPT !.cancelled = TRUE]
    /\ UNCHANGED <<t_in, t_out, reader, cursor, out, conc, channel, fetches>>

InitConcurrent ==
    ReaderInit(SeqsUpTo(ColumnKinds, 1), BatchSizes, RowCounts, {None, 1})

NextConcurrent ==
    \/ next
    \/ into_concurrent
    \/ WorkerFetch
    \/ WorkerFetched
    \/ WorkerSend
    \/ WorkerResume
    \/ ConcurrentNext
    \/ Drop

SpecConcurrent == InitConcurrent /\ [][NextConcurrent]_vars

Init == ReaderInit(SeqsUpTo(ColumnKinds, MaxCols), BatchSizes, RowCounts, {None, 1})

Next == next

Spec == Init /\ [][Next]_vars

InitText ==
    /\ t_in = NoCall
    /\ t_out = NoCall
    /\ reader = NoReader
    /\ cursor = [columns |-> <<>>, total |-> 0, pos |-> 0, failures |-> 0, faults |-> 0]
    /\ mode = "none"
    /\ out = <<>>
    /\ conc = NoReader
    /\ worker = IdleWorker
    /\ channel = <<>>
    /\ fetches = <<>>

NextText == CallChooseTextStrategy \/ CallChooseColumnStrategy

SpecText == InitText /\ [][NextText]_vars

\* ------------------------------------------------------------------------
\* Narrow text fills on the bytes of a bound text buffer
\* ------------------------------------------------------------------------

\* A text buffer holds at most MaxFillBytes bytes (rows * (max_str_len + 1)).
MaxFillBytes == 4

\* Bytes a driver writes: the terminating zero, two ASCII letters, and a byte
\* that occurs in no UTF-8 text.
Zero == 0
LetterA == 97
LetterB == 98
InvalidByte == 255
FillBytes == {Zero, LetterA, LetterB, InvalidByte}

\* Shapes <<rows, max_str_len>> of the text buffers that fit MaxFillBytes.
FillShapes ==
    {s \in (1..MaxFillBytes) \X (1..MaxFillBytes) : s[1] * (s[2] + 1) <= MaxFillBytes}

\* Indicator of one row: None for NULL, a length 0..max_str_len, or, when the
\* driver left the indicator unwritten, a length the buffer cannot hold.
Indicators(max_str_len) == {None} \cup (0..(max_str_len + 1))

\* A text column view: raw value buffer and one indicator a row.
TextViews ==
    UNION {[max_str_len : {s[2]}, rows : {s[1]},
            raw_value_buffer : [1..(s[1] * (s[2] + 1)) -> FillBytes],
            indicators : [1..s[1] -> Indicators(s[2])]] : s \in FillShapes}

\* std::str::from_utf8 / CStr::to_str over FillBytes: InvalidByte is never
\* part of a UTF-8 text, the letters always are.
valid_utf8(bytes) == \A k \in 1..Len(bytes) : bytes[k] # InvalidByte

\* chunks_exact(max_str_len + 1) of the raw value buffer: the rows' chunks.
value_chunks(buffer, max_str_len) ==
    [i \in 1..chunks_exact(Len(buffer), max_str_len) |->
        SubSeq(buffer, (i - 1) * (max_str_len + 1) + 1, i * (max_str_len + 1))]

\* CStr::from_bytes_until_nul: the bytes before the first zero; no zero in
\* the chunk is an error.
from_bytes_until_nul(bytes) ==
    IF \E k \in 1..Len(bytes) : bytes[k] = Zero
    THEN LET first == CHOOSE k \in 1..Len(bytes) :
                          /\ bytes[k] = Zero
                          /\ \A j \in 1..(k - 1) : bytes[j] # Zero
         IN  [ok |-> TRUE, bytes |-> SubSeq(bytes, 1, first - 1)]
    ELSE [ok |-> FALSE, bytes |-> <<>>]

\* One value of a string array: NULL, or the bytes of a string.
Present(bytes) == [null |-> FALSE, bytes |-> bytes]
Null == [null |-> TRUE, bytes |-> <<>>]
FillOk(values) == [status |-> "ok", values |-> values]
FillPanic == [status |-> "panic", values |-> <<>>]

\* The former implementation the source comment recalls: an empty string
\* read as NULL.
terminating_zero_value_empty_as_null(chunk) ==
    LET c_str == from_bytes_until_nul(chunk)
    IN  IF c_str.bytes = <<>> THEN Null ELSE Present(c_str.bytes)

\* The value the loop body of NarrowUseTerminatingZero appends for a chunk
\* that passed both expect() calls: always Some(str).
terminating_zero_value(chunk) == Present(from_bytes_until_nul(chunk).bytes)

\* NarrowUseTerminatingZero::fill_arrow_array: reads the raw value buffer only.
NarrowUseTerminatingZero_fill_arrow_array(max_str_len, view) ==
    LET chunks == value_chunks(view.raw_value_buffer, max_str_len)
        good(chunk) == /\ from_bytes_until_nul(chunk).ok
                       /\ valid_utf8(from_bytes_until_nul(chunk).bytes)
    IN  IF \A i \in 1..Len(chunks) : good(chunks[i])
        THEN FillOk([i \in 1..Len(chunks) |-> terminating_zero_value(chunks[i])])
        ELSE FillPanic

\* view.iter(): the value of each row by its indicator, NULL or the first
\* `indicator` bytes of the row's chunk.
TextView_iter(view) ==
    LET chunks == value_chunks(view.raw_value_buffer, view.max_str_len)
    IN  [i \in 1..view.rows |->
            IF view.indicators[i] = None THEN Null
            ELSE Present(SubSeq(chunks[i], 1, view.indicators[i]))]

\* NarrowText::fill_arrow_array: the indicator-based values, each decoded
\* with from_utf8(..).expect(..).
NarrowText_fill_arrow_array(view) ==
    LET values == TextView_iter(view)
    IN  IF \A i \in 1..Len(values) : values[i].null \/ valid_utf8(values[i].bytes)
        THEN FillOk(values)
        ELSE FillPanic

CallNarrowUseTerminatingZeroFill ==
    /\ t_in.fn = "none"
    /\ \E view \in TextViews :
          /\ t_in' = [fn |-> "NarrowUseTerminatingZero::fill_arrow_array",
                      view |-> view]
          /\ t_out' = NarrowUseTerminatingZero_fill_arrow_array(view.max_str_len, view)
    /\ UNCHANGED reader_vars

\* view.iter() is only defined for indicators the driver wrote.
CallNarrowTextFill ==
    /\ t_in.fn = "none"
    /\ \E view \in TextViews :
          /\ \A i \in 1..view.rows : view.indicators[i] <= view.max_str_len
          /\ t_in' = [fn |-> "NarrowText::fill_arrow_array", view |-> view]
          /\ t_out' = NarrowText_fill_arrow_array(view)
    /\ UNCHANGED reader_vars

NextFill == CallNarrowUseTerminatingZeroFill \/ CallNarrowTextFill

SpecFill == InitText /\ [][NextFill]_vars

\* ------------------------------------------------------------------------
\* Schema inference: the Arrow field of a column description (lib.rs, new())
\* ------------------------------------------------------------------------

\* Largest precision of the Decimal arm, largest precision of the Float32 arm,
\* largest i32.
DecimalMaxPrecision == 38
Float32MaxPrecision == 24
I32Max == 2147483647

\* Scales run from -1 to MaxScale, fractional-second precisions from -1 to
\* MaxTimePrecision.
MaxScale == 2
MaxTimePrecision == 8

Precisions == 0..(DecimalMaxPrecision + 2)
Scales == (0 - 1)..MaxScale
FloatPrecisions == 0..(Float32MaxPrecision + 2)
TimePrecisions == (0 - 1)..MaxTimePrecision

\* A usize length, kept in two parts for the lengths no i32 holds:
\* high * 2^31 + low with low <= I32Max.
Usize(high, low) == [high |-> high, low |-> low]
Lengths == {Usize(0, n) : n \in {0, 1, MaxLen, I32Max}} \cup {Usize(1, 0)}

OdbcDataType(tag, precision, scale, length) ==
    [tag |-> tag, precision |-> precision, scale |-> scale, length |-> length]

\* The variants of OdbcDataType the match of new() names, with the parameters
\* it binds.
OdbcDataTypes ==
    {OdbcDataType(tag, p, s, Usize(0, 0)) :
        tag \in {"Numeric", "Decimal"}, p \in Precisions, s \in Scales}
    \cup {OdbcDataType("Float", p, 0, Usize(0, 0)) : p \in FloatPrecisions}
    \cup {OdbcDataType(tag, p, 0, Usize(0, 0)) :
            tag \in {"Timestamp", "Time"}, p \in TimePrecisions}
    \cup {OdbcDataType(tag, 0, 0, n) :
            tag \in {"Binary", "Varbinary", "LongVarbinary", "WChar", "Char",
                     "WVarchar", "LongVarchar", "Varchar"}, n \in Lengths}
    \cup {OdbcDataType(tag, 0, 0, Usize(0, 0)) :
            tag \in {"Integer", "SmallInt", "Real", "Double", "Date", "BigInt",
                     "TinyInt", "Bit", "Unknown", "Other"}}

Nullabilities == {"Unknown", "Nullable", "NoNulls"}

ColumnDescriptions ==
    [data_type : OdbcDataTypes, nullability : Nullabilities]

\* An ArrowDataType with its parameters; "panic" stands for new() unwinding
\* at an unwrap().
ArrowDataType(type, precision, scale, length) ==
    [type |-> type, precision |-> precision, scale |-> scale, length |-> length]

Plain(type) == ArrowDataType(type, 0, 0, 0)
Panic == Plain("panic")

\* scale.try_into().unwrap(): the scale is signed, the scale of
\* ArrowDataType::Decimal is not.
decimal_of(p, scale) ==
    IF scale >= 0 THEN ArrowDataType("Decimal", p, scale, 0) ELSE Panic

\* length.try_into().unwrap(): FixedSizeBinary takes an i32.
fixed_size_binary_of(length) ==
    IF length.high = 0 /\ length.low <= I32Max
    THEN ArrowDataType("FixedSizeBinary", 0, 0, length.low)
    ELSE Panic

\* The Millisecond arm widened to precision 4.
timestamp_unit_millis_to_four(precision) ==
    IF precision = 0 THEN "Timestamp(Second)"
    ELSE IF precision \in 1..4 THEN "Timestamp(Millisecond)"
    ELSE IF precision \in 4..6 THEN "Timestamp(Microsecond)"
    ELSE "Timestamp(Nanosecond)"

\* The four Timestamp arms, in their order.
timestamp_unit(precision) ==
    IF precision = 0 THEN "Timestamp(Second)"
    ELSE IF precision \in 1..3 THEN "Timestamp(Millisecond)"
    ELSE IF precision \in 4..6 THEN "Timestamp(Microsecond)"
    ELSE "Timestamp(Nanosecond)"

\* The match on column_description.data_type, arm by arm in source order.
arrow_data_type(dt) ==
    IF dt.tag \in {"Numeric", "Decimal"} /\ dt.precision \in 0..DecimalMaxPrecision
        THEN decimal_of(dt.precision, dt.scale)
    ELSE IF dt.tag = "Integer" THEN Plain("Int32")
    ELSE IF dt.tag = "SmallInt" THEN Plain("Int16")
    ELSE IF dt.tag = "Real"
            \/ (dt.tag = "Float" /\ dt.precision \in 0..Float32MaxPrecision)
        THEN Plain("Float32")
    ELSE IF dt.tag \in {"Float", "Double"} THEN Plain("Float64")
    ELSE IF dt.tag = "Date" THEN Plain("Date32")
    ELSE IF dt.tag = "Timestamp" THEN Plain(timestamp_unit(dt.precision))
    ELSE IF dt.tag = "BigInt" THEN Plain("Int64")
    ELSE IF dt.tag = "TinyInt" THEN Plain("Int8")
    ELSE IF dt.tag = "Bit" THEN Plain("Boolean")
    ELSE IF dt.tag = "Binary" THEN fixed_size_binary_of(dt.length)
    ELSE IF dt.tag \in {"LongVarbinary", "Varbinary"} THEN Plain("Binary")
    ELSE Plain("Utf8")

\* ColumnDescription::could_be_nullable.
could_be_nullable(column_description) == column_description.nullability # "NoNulls"

\* Field::new(name, <the match>, column_description.could_be_nullable()).
Field_new(column_description) ==
    [data_type |-> arrow_data_type(column_description.data_type),
     nullable |-> could_be_nullable(column_description)]

CallInferField ==
    /\ t_in.fn = "none"
    /\ \E column_description \in ColumnDescriptions :
          /\ t_in' = [fn |-> "Field::new", column_description |-> column_description]
          /\ t_out' = Field_new(column_description)
    /\ UNCHANGED reader_vars

NextInfer == CallInferField

SpecInfer == InitText /\ [][NextInfer]_vars

\* ------------------------------------------------------------------------
\* Construction of the reader of lib.rs: new() and with_arrow_schema()
\* ------------------------------------------------------------------------

\* What col_data_type() and col_display_size() return for one column, if
\* they are called.
ColumnMetas ==
    [sql_res : {r \in SqlTypeResults : r.type.name # "Varbinary"
                                       /\ r.type.utf8_len \in {None, 1}
                                       /\ r.type.utf16_len \in {None, MaxLen}},
     display : {d \in LibDisplayResults : d.size \in {0, MaxLen - 1}}]

\* The metadata of the columns nobody asks about is left at one value.
QuietMeta ==
    [sql_res |-> [ok |-> FALSE, type |-> NoType], display |-> [ok |-> FALSE, size |-> 0]]

\* The fields of a given schema, each with the metadata of its column; a
\* field is nullable, and a Boolean one may also be not nullable.
FieldsWithMeta ==
    {[field |-> [type |-> type, nullable |-> TRUE], meta |-> QuietMeta] :
        type \in ArrowTypes \ {"Utf8", "Binary"}}
    \cup {[field |-> [type |-> "Boolean", nullable |-> FALSE], meta |-> QuietMeta]}
    \cup {[field |-> [type |-> type, nullable |-> TRUE], meta |-> meta] :
            type \in {"Utf8", "Binary"}, meta \in ColumnMetas}

\* The metadata queries made for one column: lazy_sql_data_type and
\* lazy_display_size evaluated before the strategy is chosen.
eager_queries(field, chosen) ==
    [type |-> field.type, sql |-> 1, display |-> 1]

\* The metadata queries made for one column: the calls of the closures
\* lazy_sql_data_type and lazy_display_size that choose_column_strategy made.
lazy_queries(field, chosen) ==
    [type |-> field.type, sql |-> chosen.sql_queries, display |-> chosen.display_queries]

NoQueries(field) == [type |-> field.type, sql |-> 0, display |-> 0]

\* What construction returns: the reader (schema, strategies, the buffer
\* bound to the cursor) or an error or a panic, and with it what it did to
\* the cursor: the describe_col calls made, the metadata queries a column.
Constructed(schema, strategies, max_batch_size, described, queries) ==
    [status |-> "ok", error |-> Failure("none", NoType, 0, 0, 0),
     schema |-> schema, strategies |-> strategies,
     bound |-> TRUE, capacity |-> max_batch_size,
     described |-> described, queries |-> queries]

NotConstructed(status, error, described, queries) ==
    [status |-> status, error |-> error,
     schema |-> <<>>, strategies |-> <<>>,
     bound |-> FALSE, capacity |-> 0,
     described |-> described, queries |-> queries]

\* with_arrow_schema (lib.rs): the strategies of the fields in order,
\* collected up to the first error; the row set buffer is bound only when
\* every field has a strategy.
with_arrow_schema(metas, max_batch_size, schema, described) ==
    LET chosen == [i \in 1..Len(schema) |->
                     choose_column_strategy(schema[i], metas[i].sql_res, metas[i].display)]
        failed == {i \in 1..Len(schema) : ~chosen[i].ok}
        first == CHOOSE i \in failed : \A j \in failed : i <= j
        visited(i) == failed = {} \/ i <= first
        queries == [i \in 1..Len(schema) |->
                      IF visited(i) THEN lazy_queries(schema[i], chosen[i])
                      ELSE NoQueries(schema[i])]
    IN  IF failed = {}
        THEN Constructed(schema,
                         [i \in 1..Len(schema) |->
                            [kind |-> chosen[i].kind, max_str_len |-> chosen[i].max_str_len]],
                         max_batch_size, described, queries)
        ELSE NotConstructed("error", chosen[first], described, queries)

\* What num_result_cols() and describe_col() return, if they are called.
NumColsResults == [ok : BOOLEAN, cols : 1..MaxCols]

NewDescriptions ==
    {d \in ColumnDescriptions :
        /\ d.nullability = "Nullable"
        /\ \/ d.data_type.tag = "Varchar" /\ d.data_type.length = Usize(0, 1)
           \/ d.data_type.tag = "Integer"
           \/ /\ d.data_type.tag = "Numeric"
              /\ d.data_type.precision = DecimalMaxPrecision
              /\ d.data_type.scale \in {0 - 1, 1}}

DescribeResults ==
    [ok : {TRUE}, description : NewDescriptions]
    \cup [ok : {FALSE}, description : {d \in NewDescriptions : d.data_type.tag = "Integer"}]

\* The loop of new() with describe_col(..).unwrap() in place of map_err(..)?.
describe_columns_unwrapping(num_cols, describes) ==
    LET field(i) == Field_new(describes[i].description)
        stops == {i \in 1..num_cols :
                    ~describes[i].ok \/ field(i).data_type.type = "panic"}
        first == CHOOSE i \in stops : \A j \in stops : i <= j
    IN  IF stops = {}
        THEN [stopped |-> 0, status |-> "ok", described |-> num_cols,
              fields |-> [i \in 1..num_cols |->
                            [type |-> field(i).data_type.type,
                             nullable |-> field(i).nullable]]]
        ELSE [stopped |-> first, status |-> "panic",
              described |-> first, fields |-> <<>>]

\* The loop of new(): describe_col and Field::new for each column in order,
\* up to the first column whose describe_col fails or whose Field::new panics.
describe_columns(num_cols, describes) ==
    LET field(i) == Field_new(describes[i].description)
        stops == {i \in 1..num_cols :
                    ~describes[i].ok \/ field(i).data_type.type = "panic"}
        first == CHOOSE i \in stops : \A j \in stops : i <= j
    IN  IF stops = {}
        THEN [stopped |-> 0, status |-> "ok", described |-> num_cols,
              fields |-> [i \in 1..num_cols |->
                            [type |-> field(i).data_type.type,
                             nullable |-> field(i).nullable]]]
        ELSE [stopped |-> first,
              status |-> IF describes[first].ok THEN "panic" ELSE "error",
              described |-> first, fields |-> <<>>]

\* OdbcReader::new (lib.rs): the number of columns, the fields, and then
\* with_arrow_schema on the schema of these fields.
OdbcReader_new(num_cols_res, describes, metas, max_batch_size) ==
    IF ~num_cols_res.ok
    THEN NotConstructed("error", Failure("UnableToRetrieveNumCols", NoType, 0, 0, 0),
                        0, <<>>)
    ELSE LET loop == describe_columns(num_cols_res.cols, describes)
         IN  CASE loop.status = "error" ->
                    NotConstructed("error",
                                   Failure("FailedToDescribeColumn", NoType, 0, 0, 0),
                                   loop.described, <<>>)
               [] loop.status = "panic" ->
                    NotConstructed("panic", Failure("none", NoType, 0, 0, 0),
                                   loop.described, <<>>)
               [] OTHER ->
                    with_arrow_schema(metas, max_batch_size, loop.fields, loop.described)

CallWithArrowSchema ==
    /\ t_in.fn = "none"
    /\ \E columns \in SeqsUpTo(FieldsWithMeta, MaxCols), max_batch_size \in {MaxBatch} :
          LET schema == [i \in 1..Len(columns) |-> columns[i].field]
              metas == [i \in 1..Len(columns) |-> columns[i].meta]
          IN  /\ t_in' = [fn |-> "with_arrow_schema", schema |-> schema, metas |-> metas,
                          max_batch_size |-> max_batch_size]
              /\ t_out' = with_arrow_schema(metas, max_batch_size, schema, 0)
    /\ UNCHANGED reader_vars

CallNew ==
    /\ t_in.fn = "none"
    /\ \E num_cols_res \in NumColsResults, max_batch_size \in {MaxBatch} :
       \E describes \in [1..num_cols_res.cols -> DescribeResults],
          metas \in [1..num_cols_res.cols -> ColumnMetas] :
          /\ t_in' = [fn |-> "new", num_cols |-> num_cols_res, describes |-> describes,
                      metas |-> metas, max_batch_size |-> max_batch_size]
          /\ t_out' = OdbcReader_new(num_cols_res, describes, metas, max_batch_size)
    /\ UNCHANGED reader_vars

NextNew == CallWithArrowSchema \/ CallNew

SpecNew == InitText /\ [][NextNew]_vars

\* ------------------------------------------------------------------------
\* Properties of the reader (Spec)
\* ------------------------------------------------------------------------

\* C1: every batch next() returned has one column for each field of the schema,
\* and every column is as long as the raw batch it was made from has valid
\* rows, whatever the strategies of the columns.
C1_BatchShape ==
    \A i \in 1..Len(out) :
        out[i].kind = "batch" =>
            /\ Len(out[i].cols) = Len(reader.schema)
            /\ \A j \in 1..Len(out[i].cols) : out[i].cols[j] = out[i].rows

\* C1, its case: after an earlier call, a batch of several rows from a reader
\* of two columns, one of them read by the terminating zero.
C1_Witness ==
    /\ Len(out) >= 2
    /\ out[2].kind = "batch"
    /\ out[2].rows >= 2
    /\ Len(reader.schema) = 2
    /\ \E j \in 1..Len(reader.strategies) :
          reader.strategies[j].kind = "NarrowUseTerminatingZero"

\* C2, as claimed: once a fetch failed and next() returned its error, every
\* later call of next() returns no item.
C2_ErrorEndsIteration ==
    \A k \in 1..Len(out) : \A j \in 1..Len(out) :
        (k < j /\ out[k].kind = "fetch error") => out[j].kind = "none"

\* ------------------------------------------------------------------------
\* Properties of the concurrent reader (SpecConcurrent)
\* ------------------------------------------------------------------------

\* The items the reader `r` yields on cursor `c` when no fetch fails and no
\* value is faulty: next() called until it returns no item.
RECURSIVE SequentialItems(_, _)
SequentialItems(r, c) ==
    LET fetched == CHOOSE f \in FetchOutcomes(c, r.bound.capacity, r.schema) :
                      f.result # "err" /\ f.fault = "none"
        item == next_item(r, fetched)
    IN  IF item.kind = "none" THEN <<item>>
        ELSE <<item>> \o SequentialItems(r, fetched.cursor)

\* The stream of the concurrent reader ran to its end with no failure, on a
\* reader that had not been pulled from.
RanToEnd ==
    /\ mode = "concurrent"
    /\ worker.base = 0
    /\ cursor.failures = 0
    /\ cursor.faults = 0
    /\ out # <<>>
    /\ out[Len(out)].kind = "none"

\* C3, as claimed: on the same result set the concurrent reader yields the
\* items the reader it was made from yields: as many batches, of the same
\* content, in the same order.
C3_SameItems ==
    RanToEnd =>
        LET sequential == SequentialItems(reader, [cursor EXCEPT !.pos = 0]) IN
        \E n \in 1..Len(out) :
            /\ out[n].kind = "none"
            /\ SubSeq(out, 1, n) = sequential

\* C4, as claimed: the concurrent reader has the schema, the batch size and the
\* buffer allocation options of the reader into_concurrent() consumed.
C4_SimilarReader ==
    mode \in {"concurrent", "dropped"} =>
        /\ conc.schema = reader.schema
        /\ conc.bound.capacity = reader.bound.capacity
        /\ conc.options = reader.options

\* C5: once the consumer has dropped the concurrent reader, no fetch is started
\* on the cursor.
C5_NoFetchAfterDrop ==
    [][mode = "dropped" => fetches' = fetches]_vars

\* C5, its case: the reader was dropped while a fetch was in flight; the fetch
\* completed, its result was discarded and the worker stopped.
C5_Witness ==
    /\ mode = "dropped"
    /\ worker.discarded > 0
    /\ worker.pc = "stopped"
    /\ cursor.pos < cursor.total

TextCall == t_in.fn = "choose_text_strategy"
ColumnCall == t_in.fn = "choose_column_strategy"

\* The length the native type gives for the encoding of the build.
NativeLen == IF t_in.windows THEN t_in.sql_type.utf16_len ELSE t_in.sql_type.utf8_len

\* C7: with a native length L and no cap the buffer's max length is L; with a
\* cap C it is the smaller of L and C; with no native length, no display size
\* and no cap, selection fails with ZeroSizedColumn.
C7_TextSizing ==
    TextCall =>
        /\ (NativeLen # None /\ t_in.max_text_size = None) =>
              (t_out.ok /\ t_out.max_str_len = NativeLen)
        /\ (NativeLen # None /\ t_in.max_text_size # None) =>
              /\ t_out.ok
              /\ t_out.max_str_len <= t_in.max_text_size
              /\ t_out.max_str_len <= NativeLen
              /\ t_out.max_str_len \in {NativeLen, t_in.max_text_size}
        /\ (NativeLen = None /\ t_in.display.ok /\ t_in.display.size = None
              /\ t_in.max_text_size = None) =>
              (~t_out.ok /\ t_out.kind = "ZeroSizedColumn")

\* C7, its case: a cap below the native length.
C7_Witness ==
    /\ TextCall
    /\ NativeLen = MaxLen
    /\ t_in.max_text_size = MaxLen - 1
    /\ t_out.ok
    /\ t_out.max_str_len = MaxLen - 1

\* C8: a Utf8 field whose native type gives no length and whose display size
\* is zero or negative fails with InvalidDisplaySize of that size.
C8_InvalidDisplaySize ==
    (/\ ColumnCall
     /\ t_in.field.type = "Utf8"
     /\ t_in.sql_res.ok
     /\ t_in.sql_res.type.utf16_len = None
     /\ t_in.display.ok
     /\ t_in.display.size <= 0) =>
        /\ ~t_out.ok
        /\ t_out.kind = "InvalidDisplaySize"
        /\ t_out.size = t_in.display.size

\* C8, its case: a display size of zero.
C8_Witness ==
    /\ ColumnCall
    /\ t_in.field.type = "Utf8"
    /\ t_in.sql_res.ok
    /\ t_in.display.ok
    /\ t_in.display.size = 0
    /\ t_out.kind = "InvalidDisplaySize"

\* C9: with no native length, a failed display size query fails selection with
\* UnknownStringLength of the native type, whatever the cap; with a native
\* length the query is not made and that failure does not occur.
C9_UnknownStringLength ==
    /\ TextCall =>
          /\ (NativeLen = None /\ ~t_in.display.ok) =>
                /\ ~t_out.ok
                /\ t_out.kind = "UnknownStringLength"
                /\ t_out.sql_type = t_in.sql_type
          /\ NativeLen # None =>
                (t_out.display_queries = 0 /\ t_out.kind # "UnknownStringLength")
    /\ (ColumnCall /\ t_in.field.type = "Utf8" /\ t_in.sql_res.ok) =>
          /\ (t_in.sql_res.type.utf16_len = None /\ ~t_in.display.ok) =>
                /\ ~t_out.ok
                /\ t_out.kind = "UnknownStringLength"
                /\ t_out.sql_type = t_in.sql_res.type
          /\ t_in.sql_res.type.utf16_len # None =>
                (t_out.display_queries = 0 /\ t_out.kind # "UnknownStringLength")

\* C9, its case: the query fails while a cap is configured.
C9_Witness ==
    /\ TextCall
    /\ NativeLen = None
    /\ ~t_in.display.ok
    /\ t_in.max_text_size = MaxLen
    /\ t_out.kind = "UnknownStringLength"
    /\ t_out.display_queries = 1

\* C10, as claimed: with the flag set every strategy chosen is
\* NarrowUseTerminatingZero, with the flag unset none is.
C10_FlagForcesTerminatingZero ==
    (TextCall /\ t_out.ok) =>
        (t_out.kind = "NarrowUseTerminatingZero"
            <=> t_in.assume_indicators_are_memory_garbage)

\* C10, amended: on a build for a target other than Windows the strategy is
\* NarrowUseTerminatingZero exactly when the flag is set; on a build for
\* Windows it is WideText whatever the flag.
C10_FlagForcesTerminatingZeroOffWindows ==
    (TextCall /\ t_out.ok) =>
        /\ ~t_in.windows =>
              (t_out.kind = "NarrowUseTerminatingZero"
                  <=> t_in.assume_indicators_are_memory_garbage)
        /\ t_in.windows => t_out.kind = "WideText"

\* C10, its case: the flag set on a build for Linux.
C10_Witness ==
    /\ TextCall
    /\ ~t_in.windows
    /\ t_in.assume_indicators_are_memory_garbage
    /\ t_out.ok
    /\ t_out.kind = "NarrowUseTerminatingZero"

\* ------------------------------------------------------------------------
\* Properties of the narrow text fills (SpecFill)
\* ------------------------------------------------------------------------

FillCall == t_in.fn = "NarrowUseTerminatingZero::fill_arrow_array"

\* C11: whenever the fill of NarrowUseTerminatingZero returns an array, the
\* array has one value for each chunk of max_str_len + 1 bytes of the raw
\* value buffer, every value is present whatever the row's indicator is, and
\* the value of a row is exactly the bytes of its chunk before the chunk's
\* first zero byte (the empty string when the chunk starts with zero).
C11_TerminatingZeroFill ==
    (FillCall /\ t_out.status = "ok") =>
        LET view == t_in.view
            stride == view.max_str_len + 1
        IN  /\ Len(t_out.values) = view.rows
            /\ \A i \in 1..view.rows :
                  LET value == t_out.values[i]
                      base == (i - 1) * stride
                      n == Len(value.bytes)
                  IN  /\ ~value.null
                      /\ n <= view.max_str_len
                      /\ view.raw_value_buffer[base + n + 1] = Zero
                      /\ \A k \in 1..n :
                            /\ value.bytes[k] = view.raw_value_buffer[base + k]
                            /\ value.bytes[k] # Zero

\* Two rows in a 2-byte stride: the chunk "a\0" read as "a" although its
\* indicator says NULL, and an all-zero chunk read as a present empty string
\* although its indicator was never written.
C11_Witness ==
    /\ FillCall
    /\ t_out.status = "ok"
    /\ t_in.view.rows = 2
    /\ t_in.view.raw_value_buffer = <<LetterA, Zero, Zero, Zero>>
    /\ t_in.view.indicators = <<None, t_in.view.max_str_len + 1>>
    /\ t_out.values = <<Present(<<LetterA>>), Present(<<>>)>>

\* ------------------------------------------------------------------------
\* Properties of schema inference (SpecInfer)
\* ------------------------------------------------------------------------

InferCall == t_in.fn = "Field::new"

InferredFrom == t_in.column_description.data_type

\* C14: a Numeric or Decimal column of precision p <= 38 and scale s is
\* inferred as Decimal(p, s), whatever p and s are, and one of precision
\* above 38 as Utf8.
C14_DecimalInference ==
    (InferCall /\ InferredFrom.tag \in {"Numeric", "Decimal"}) =>
        IF InferredFrom.precision <= DecimalMaxPrecision
        THEN /\ t_out.data_type.type = "Decimal"
             /\ t_out.data_type.precision = InferredFrom.precision
             /\ t_out.data_type.scale = InferredFrom.scale
        ELSE t_out.data_type.type = "Utf8"

\* C15: a Timestamp column is inferred by its fractional-second precision
\* alone: 0 as seconds, 1 to 3 as milliseconds, 4 to 6 as microseconds, every
\* precision above 6 as nanoseconds; the result is a timestamp of one unit
\* for every precision.
C15_TimestampInference ==
    (InferCall /\ InferredFrom.tag = "Timestamp") =>
        LET p == InferredFrom.precision
            type == t_out.data_type.type
        IN  /\ p = 0 => type = "Timestamp(Second)"
            /\ p \in 1..3 => type = "Timestamp(Millisecond)"
            /\ p \in 4..6 => type = "Timestamp(Microsecond)"
            /\ p > 6 => type = "Timestamp(Nanosecond)"
            /\ type \in {"Timestamp(Second)", "Timestamp(Millisecond)",
                         "Timestamp(Microsecond)", "Timestamp(Nanosecond)"}

\* A Timestamp column of precision 3 inferred as milliseconds, or one of
\* precision above 6 inferred as nanoseconds.
C15_Witness ==
    /\ InferCall
    /\ InferredFrom.tag = "Timestamp"
    /\ InferredFrom.precision = 3
    /\ t_out.data_type.type = "Timestamp(Millisecond)"

\* The rows of the inference table other than Numeric, Decimal and Timestamp.
TableType(dt) ==
    CASE dt.tag = "Integer" -> "Int32"
      [] dt.tag = "SmallInt" -> "Int16"
      [] dt.tag = "BigInt" -> "Int64"
      [] dt.tag = "TinyInt" -> "Int8"
      [] dt.tag = "Real" -> "Float32"
      [] dt.tag = "Float" ->
            IF dt.precision <= Float32MaxPrecision THEN "Float32" ELSE "Float64"
      [] dt.tag = "Double" -> "Float64"
      [] dt.tag = "Date" -> "Date32"
      [] dt.tag = "Bit" -> "Boolean"
      [] dt.tag = "Binary" -> "FixedSizeBinary"
      [] dt.tag \in {"Varbinary", "LongVarbinary"} -> "Binary"
      [] OTHER -> "Utf8"

\* C16: every column description other than a Numeric, Decimal or Timestamp
\* one is inferred as a field: the type is the one of the table (Binary(n) as
\* FixedSizeBinary(n) with the same n), and the field is nullable exactly
\* when the description could be nullable.
C16_InferenceTable ==
    (InferCall /\ InferredFrom.tag \notin {"Numeric", "Decimal", "Timestamp"}) =>
        /\ t_out.data_type.type = TableType(InferredFrom)
        /\ InferredFrom.tag = "Binary" =>
              /\ InferredFrom.length.high = 0
              /\ t_out.data_type.length = InferredFrom.length.low
        /\ t_out.nullable = (t_in.column_description.nullability # "NoNulls")

\* ------------------------------------------------------------------------
\* Properties of construction (SpecNew)
\* ------------------------------------------------------------------------

WithCall == t_in.fn = "with_arrow_schema"

NewCall == t_in.fn = "new"

\* Nothing of a reader came out of the call: no schema, no strategies, no
\* buffer bound to the cursor.
NoReaderBuilt ==
    /\ t_out.status # "ok"
    /\ t_out.schema = <<>>
    /\ t_out.strategies = <<>>
    /\ ~t_out.bound

UnsupportedFields == {i \in 1..Len(t_in.schema) : t_in.schema[i].type \in UnsupportedArrowTypes}

\* Strategy selection succeeds for field j by the metadata of its column: a
\* supported type, and for Utf8 and Binary a native type, and for Utf8 a
\* length from the native type or a display size of at least 1.
SelectionSucceeds(j) ==
    LET type == t_in.schema[j].type
        meta == t_in.metas[j]
    IN  /\ type \in SupportedArrowTypes
        /\ type \in {"Utf8", "Binary"} => meta.sql_res.ok
        /\ (type = "Utf8" /\ meta.sql_res.type.utf16_len = None) =>
              (meta.display.ok /\ meta.display.size >= 1)

\* C12 as stated: whenever the schema given to with_arrow_schema holds a field
\* of a type with no strategy, construction fails with UnsupportedArrowType
\* carrying such a type of the schema, no reader is returned and no buffer
\* is bound.
C12_UnsupportedArrowType ==
    (WithCall /\ UnsupportedFields # {}) =>
        /\ NoReaderBuilt
        /\ t_out.status = "error"
        /\ t_out.error.kind = "UnsupportedArrowType"
        /\ \E i \in UnsupportedFields : t_out.error.arrow_type = t_in.schema[i].type

\* C12, amended: whenever the schema holds a field of a type with no
\* strategy, construction fails, no reader is returned and no buffer is
\* bound; the error is UnsupportedArrowType carrying the type of the first
\* such field when strategy selection succeeds for every field before it,
\* and otherwise the error of the first field whose selection fails.
C12_UnsupportedArrowTypeFirstFailure ==
    (WithCall /\ UnsupportedFields # {}) =>
        LET first == CHOOSE i \in UnsupportedFields : \A j \in UnsupportedFields : i <= j
        IN  /\ NoReaderBuilt
            /\ t_out.status = "error"
            /\ IF \A j \in 1..(first - 1) : SelectionSucceeds(j)
               THEN /\ t_out.error.kind = "UnsupportedArrowType"
                    /\ t_out.error.arrow_type = t_in.schema[first].type
               ELSE t_out.error.kind \in {"FailedToDescribeColumn", "UnknownStringLength",
                                          "InvalidDisplaySize"}

\* A schema of a supported field and a Float16 field: UnsupportedArrowType
\* carrying Float16, and nothing bound.
C12_Witness ==
    /\ WithCall
    /\ Len(t_in.schema) = 2
    /\ t_in.schema[1].type = "Int32"
    /\ t_in.schema[2].type = "Float16"
    /\ t_out.error.kind = "UnsupportedArrowType"
    /\ t_out.error.arrow_type = "Float16"
    /\ NoReaderBuilt

\* C13: new() fails with UnableToRetrieveNumCols when num_result_cols()
\* fails, and with FailedToDescribeColumn when the describe_col call of a
\* column fails, whichever column it is; in both cases no schema, no
\* strategies and no bound buffer come out, and no metadata query of
\* strategy selection was made.
C13_MetadataFailure ==
    NewCall =>
        /\ ~t_in.num_cols.ok =>
              /\ t_out.status = "error"
              /\ t_out.error.kind = "UnableToRetrieveNumCols"
              /\ t_out.described = 0
              /\ NoReaderBuilt
        /\ \A i \in 1..t_in.num_cols.cols :
              (t_in.num_cols.ok /\ t_out.described >= i /\ ~t_in.describes[i].ok) =>
                  /\ t_out.status = "error"
                  /\ t_out.error.kind = "FailedToDescribeColumn"
                  /\ t_out.described = i
                  /\ t_out.queries = <<>>
                  /\ NoReaderBuilt

\* A result set of two columns whose second describe_col fails.
C13_Witness ==
    /\ NewCall
    /\ t_in.num_cols.ok
    /\ t_in.num_cols.cols = 2
    /\ t_in.describes[1].ok
    /\ ~t_in.describes[2].ok
    /\ t_out.described = 2
    /\ t_out.error.kind = "FailedToDescribeColumn"
    /\ NoReaderBuilt

\* C18: strategy selection asks for the native type of a column at most
\* once and only for a Utf8 or Binary field, and for its display size at most
\* once and only for a Utf8 field whose native type was obtained and has no
\* length; for a field of any other type it asks for nothing.
C18_LazyMetadata ==
    (WithCall \/ NewCall) =>
        \A i \in 1..Len(t_out.queries) :
            LET q == t_out.queries[i]
                meta == t_in.metas[i]
            IN  /\ q.sql \in {0, 1}
                /\ q.display \in {0, 1}
                /\ q.sql = 1 => q.type \in {"Utf8", "Binary"}
                /\ q.display = 1 =>
                      /\ q.type = "Utf8"
                      /\ q.sql = 1
                      /\ meta.sql_res.ok
                      /\ meta.sql_res.type.utf16_len = None
                /\ q.type \notin {"Utf8", "Binary"} => (q.sql = 0 /\ q.display = 0)

\* A schema of a Utf8 field whose native type has no length and an Int32
\* field: both lookups once for the first, none for the second.
C18_Witness ==
    /\ WithCall
    /\ t_out.status = "ok"
    /\ Len(t_out.queries) = 2
    /\ t_out.queries[1] = [type |-> "Utf8", sql |-> 1, display |-> 1]
    /\ t_out.queries[2] = [type |-> "Int32", sql |-> 0, display |-> 0]

\* ------------------------------------------------------------------------
\* Fill failures in next() (Spec)
\* ------------------------------------------------------------------------

\* C17: whenever next() fetches a batch that holds a cell a column cannot
\* fill (text that is not valid in a text column, a value a converting
\* column cannot map), next() returns one item, a conversion error with no
\* columns, and the reader (schema, strategies, bound buffer) stays as it was
\* and stays usable.
C17_FillFailureSurfaced ==
    [][(mode = "reader" /\ cursor'.faults > cursor.faults) =>
          /\ Len(out') = Len(out) + 1
          /\ out'[Len(out')].kind = "conversion error"
          /\ out'[Len(out')].cols = <<>>
          /\ reader' = reader
          /\ mode' = "reader"]_vars
====
